---- MODULE Spec2Model ----
(***************************************************************************)
(* weasyprint.text: line splitting on top of the Pango shaping engine.     *)
(*                                                                         *)
(* A text is a sequence of characters.  The characters of the model are a  *)
(* one-byte letter, a two-byte letter (U+00E9), the space, the line feed   *)
(* and the three-byte paragraph separator U+2029.  Byte offsets are real   *)
(* UTF-8 byte offsets: encode()/decode() are modelled by what they do.     *)
(*                                                                         *)
(* The shaping engine is modelled by its word-wrap contract               *)
(* (Pango.WrapMode.WORD): paragraphs end at line-break characters, a line  *)
(* is filled greedily with words that keep their trailing spaces, and the  *)
(* first word of a line is always taken, even if it overflows.  Every      *)
(* glyph advances by one pixel (PANGO_SCALE units).  Letter and word       *)
(* spacing markup and hinting do not change byte offsets and are left out. *)
(***************************************************************************)
EXTENDS Integers, Sequences, FiniteSets, TLC

\* ------------------------------------------------------------- bounds
MaxLen == 4
MaxWidth == 3

\* ---------------------------------------------------------- constants
PANGO_SCALE == 1024
WIDTH_LIMIT == 2097152

None == -1

\* ---------------------------------------------------------- characters
A == "a"
E2 == "e2"
SP == "sp"
LF == "lf"
PS == "ps"

Chars == {A, E2, SP, LF, PS}

Letters == {A, E2}

LineBreaks == {LF, PS}

UTF8(c) ==
  CASE c = A  -> <<97>>
    [] c = E2 -> <<195, 169>>
    [] c = SP -> <<32>>
    [] c = LF -> <<10>>
    [] c = PS -> <<226, 128, 169>>

RECURSIVE Encode(_)
Encode(s) == IF s = <<>> THEN <<>> ELSE UTF8(Head(s)) \o Encode(Tail(s))

\* bytes.decode('utf-8'): ok is FALSE where Python raises UnicodeDecodeError
RECURSIVE Decode(_)
Decode(b) ==
  IF b = <<>> THEN [ok |-> TRUE, chars |-> <<>>]
  ELSE LET one(c, n) == LET rest == Decode(SubSeq(b, n + 1, Len(b)))
                        IN [ok |-> rest.ok, chars |-> <<c>> \o rest.chars]
           bad == [ok |-> FALSE, chars |-> <<>>]
       IN CASE b[1] = 97 -> one(A, 1)
            [] b[1] = 32 -> one(SP, 1)
            [] b[1] = 10 -> one(LF, 1)
            [] b[1] = 195 -> IF Len(b) >= 2 /\ b[2] = 169 THEN one(E2, 2) ELSE bad
            [] b[1] = 226 -> IF Len(b) >= 3 /\ b[2] = 128 /\ b[3] = 169
                             THEN one(PS, 3) ELSE bad
            [] OTHER -> bad

\* Python slices s[n:] and s[:n], for n >= 0
SliceFrom(s, n) == IF n >= Len(s) THEN <<>> ELSE SubSeq(s, n + 1, Len(s))

SliceTo(s, n) == IF n >= Len(s) THEN s ELSE SubSeq(s, 1, n)

\* text.encode('utf-8')[n:].decode('utf-8')
BytesFrom(s, n) == Decode(SliceFrom(Encode(s), n))

\* text.encode('utf-8')[:n].decode('utf-8')
BytesTo(s, n) == Decode(SliceTo(Encode(s), n))

\* s.rstrip(' ')
RECURSIVE RStrip(_)
RStrip(s) ==
  IF s # <<>> /\ s[Len(s)] = SP THEN RStrip(SubSeq(s, 1, Len(s) - 1)) ELSE s

\* '\n'.join(lines)
RECURSIVE Join(_)
Join(ls) ==
  IF ls = <<>> THEN <<>>
  ELSE IF Len(ls) = 1 THEN ls[1]
  ELSE ls[1] \o <<LF>> \o Join(Tail(ls))

Max(S) == CHOOSE x \in S : \A y \in S : y <= x

Min(S) == CHOOSE x \in S : \A y \in S : x <= y

\* ------------------------------------------------------ unit conversion
units_from_double(value) == value * PANGO_SCALE

\* true division in the source; every width here is a whole number of pixels
units_to_double(value) == value \div PANGO_SCALE

\* -------------------------------------------------------- shaping engine
Unconstrained == -1

\* logical width of a run of characters, in engine units
TextWidth(s) == Len(s) * PANGO_SCALE

\* the places where a line of the paragraph may end: after the spaces that
\* follow a word, and at the end of the paragraph
BreakEnds(p) ==
  {k \in 1..(Len(p) - 1) : p[k] = SP /\ p[k + 1] # SP} \cup {Len(p)}

\* number of characters of the first line of a non-empty paragraph
FirstLineChars(p, width) ==
  IF width = Unconstrained THEN Len(p)
  ELSE LET fit == {k \in BreakEnds(p) : TextWidth(SubSeq(p, 1, k)) <= width}
       IN IF fit # {} THEN Max(fit) ELSE Min(BreakEnds(p))

RECURSIVE WrapLines(_, _, _)
WrapLines(p, width, start) ==
  IF p = <<>> THEN << [start_index |-> start, length |-> 0, chars |-> <<>>] >>
  ELSE LET k == FirstLineChars(p, width)
           head == SubSeq(p, 1, k)
           line == [start_index |-> start, length |-> Len(Encode(head)),
                    chars |-> head]
       IN IF k = Len(p) THEN <<line>>
          ELSE <<line>> \o WrapLines(SliceFrom(p, k), width, start + line.length)

FirstBreakIndex(s) ==
  LET at == {i \in 1..Len(s) : s[i] \in LineBreaks}
  IN IF at = {} THEN 0 ELSE Min(at)

RECURSIVE ParagraphLines(_, _, _)
ParagraphLines(s, width, start) ==
  LET i == FirstBreakIndex(s)
  IN IF i = 0 THEN WrapLines(s, width, start)
     ELSE WrapLines(SubSeq(s, 1, i - 1), width, start)
          \o ParagraphLines(SliceFrom(s, i), width,
                            start + Len(Encode(SubSeq(s, 1, i))))

\* get_size(line)[0]
LineWidth(line) == units_to_double(TextWidth(line.chars))

\* ------------------------------------------------- create_temp_layout
SetWidthApplies_Truthy(max_width) ==
  max_width # None /\ max_width # 0 /\ max_width < WIDTH_LIMIT

SetWidthApplies(max_width) == max_width # None /\ max_width < WIDTH_LIMIT

create_temp_layout(text, max_width) ==
  LET width == IF SetWidthApplies(max_width)
               THEN units_from_double(max_width) ELSE Unconstrained
  IN [text |-> text, width |-> width, lines |-> ParagraphLines(text, width, 0)]

NoLayout == [text |-> <<>>, width |-> Unconstrained, lines |-> <<>>]

get_line_count(layout) == Len(layout.lines)

\* layout.get_line(i), i counted from 0 as in the source
get_line(layout, i) == layout.lines[i + 1]

\* ------------------------------------------------------------- state
VARIABLES
  orig,                  \* the text the caller started from
  max_width,             \* None, 0, a finite width, or WIDTH_LIMIT
  offset,                \* bytes of orig the caller has skipped so far
  arg_text,              \* the text argument of the current call
  pass,                  \* 1, or 2 when create_layout runs on its own output
  pc,                    \* position in create_layout / split_first_line
  text,                  \* create_layout: the remaining text
  lines,                 \* create_layout: accepted line texts
  character_differences,
  line_break_differences,
  iterations,            \* iterations of the while loop since the call
  next_word_layout,      \* the layout of line 239, once built
  layout,                \* the layout create_layout returned
  length,                \* split_first_line: length
  resume_at,             \* split_first_line: resume_at
  first_layout           \* the layout of the first pass, kept for pass 2

vars == <<orig, max_width, offset, arg_text, pass, pc, text, lines,
          character_differences, line_break_differences, iterations,
          next_word_layout, layout, length, resume_at, first_layout>>

Texts == UNION {[1..n -> Chars] : n \in 0..MaxLen}

Widths == {None, 0, WIDTH_LIMIT} \cup (1..MaxWidth)

MaxIter == MaxLen + 2

Init ==
  /\ orig \in Texts
  /\ max_width \in Widths
  /\ offset = 0
  /\ arg_text = orig
  /\ pass = 1
  /\ pc = "call"
  /\ text = orig
  /\ lines = <<>>
  /\ character_differences = <<>>
  /\ line_break_differences = <<>>
  /\ iterations = 0
  /\ next_word_layout = NoLayout
  /\ layout = NoLayout
  /\ length = None
  /\ resume_at = None
  /\ first_layout = NoLayout

\* Python truth value of max_width
Truthy(w) == w # None /\ w # 0

\* ------------------------------------------------------ create_layout
\* the values one iteration of the while loop computes from (text, max_width)
FirstLineLength(t, w) == get_line(create_temp_layout(t, w), 0).length

NumberOfLines(t, w) == get_line_count(create_temp_layout(t, w))

FirstLineText(t, w) == BytesTo(t, FirstLineLength(t, w))

NextText(t, w) == BytesFrom(t, FirstLineLength(t, w))

NextWordLayout(t, w) == create_temp_layout(NextText(t, w).chars, 0)

WordLength(t, w) == get_line(NextWordLayout(t, w), 0).length

WordText(t, w) == BytesTo(NextText(t, w).chars, WordLength(t, w))

StrippedWordText(t, w) == RStrip(WordText(t, w).chars)

\* first_line_layout.get_line_count() > 1
WordOverflows(t, w) ==
  get_line_count(create_temp_layout(
      FirstLineText(t, w).chars \o StrippedWordText(t, w), w)) > 1

\* line 234: the text after a forced break
ForcedBreakRest_Difference(t, character_length) ==
  BytesFrom(t, character_length - 1)

ForcedBreakRest(t, character_length) == BytesFrom(t, character_length)

\* line 250: the line kept when the next word does not fit
KeptFirstLine_Unstripped(first_line_text) == first_line_text

KeptFirstLine(first_line_text) == RStrip(first_line_text)

\* line 259: the text after the first line and the added word
AddedWordRest(t, first_line_length, word_length) ==
  SliceFrom(t, first_line_length + word_length)

FastPath ==
  /\ pc = "call"
  /\ ~Truthy(max_width)
  /\ layout' = create_temp_layout(arg_text, max_width)
  /\ character_differences' = <<0>>
  /\ line_break_differences' = <<0>>
  /\ text' = arg_text
  /\ lines' = <<>>
  /\ iterations' = 0
  /\ pc' = "returned"
  /\ UNCHANGED <<orig, max_width, offset, arg_text, pass, next_word_layout,
                 length, resume_at, first_layout>>

EnterLoop ==
  /\ pc = "call"
  /\ Truthy(max_width)
  /\ text' = arg_text
  /\ lines' = <<>>
  /\ character_differences' = <<>>
  /\ line_break_differences' = <<>>
  /\ iterations' = 0
  /\ pc' = "loop"
  /\ UNCHANGED <<orig, max_width, offset, arg_text, pass, next_word_layout,
                 layout, length, resume_at, first_layout>>

ForcedBreak ==
  /\ pc = "loop"
  /\ text # <<>>
  /\ iterations < MaxIter
  /\ NumberOfLines(text, max_width) > 1
  /\ FirstLineLength(text, max_width) = 0
  /\ LET character_length ==
           get_line(create_temp_layout(text, max_width), 1).start_index
         rest == ForcedBreakRest(text, character_length)
     IN /\ lines' = Append(lines, <<LF>>)
        /\ character_differences' = Append(character_differences, 0)
        /\ line_break_differences' =
             Append(line_break_differences, character_length - Len(<<LF>>))
        /\ text' = rest.chars
        /\ pc' = IF rest.ok THEN "loop" ELSE "error"
  /\ iterations' = iterations + 1
  /\ UNCHANGED <<orig, max_width, offset, arg_text, pass, next_word_layout,
                 layout, length, resume_at, first_layout>>

WordOverflow ==
  /\ pc = "loop"
  /\ text # <<>>
  /\ iterations < MaxIter
  /\ NumberOfLines(text, max_width) > 1
  /\ FirstLineLength(text, max_width) # 0
  /\ LET first_line_length == FirstLineLength(text, max_width)
         first_line_text == FirstLineText(text, max_width)
         next_text == NextText(text, max_width)
         word_text == WordText(text, max_width)
         stripped_word_text == StrippedWordText(text, max_width)
         line_text == KeptFirstLine(first_line_text.chars)
     IN IF ~(first_line_text.ok /\ next_text.ok)
        THEN /\ pc' = "error"
             /\ UNCHANGED <<text, lines, character_differences,
                            line_break_differences, next_word_layout>>
        ELSE IF next_text.chars = <<>>
        THEN /\ pc' = "loop"
             /\ UNCHANGED <<text, lines, character_differences,
                            line_break_differences, next_word_layout>>
        ELSE IF ~word_text.ok
        THEN /\ pc' = "error"
             /\ next_word_layout' = NextWordLayout(text, max_width)
             /\ UNCHANGED <<text, lines, character_differences,
                            line_break_differences>>
        ELSE /\ pc' = "loop"
             /\ next_word_layout' = NextWordLayout(text, max_width)
             /\ line_break_differences' = Append(line_break_differences, 0)
             /\ IF WordOverflows(text, max_width)
                THEN /\ lines' = Append(lines, line_text)
                     /\ character_differences' =
                          Append(character_differences,
                                 Len(line_text) - Len(first_line_text.chars))
                     /\ text' = next_text.chars
                ELSE /\ lines' = Append(lines,
                                        first_line_text.chars \o stripped_word_text)
                     /\ character_differences' =
                          Append(character_differences,
                                 Len(stripped_word_text) - Len(word_text.chars))
                     /\ text' = AddedWordRest(text, first_line_length,
                                              WordLength(text, max_width))
  /\ iterations' = iterations + 1
  /\ UNCHANGED <<orig, max_width, offset, arg_text, pass, layout, length,
                 resume_at, first_layout>>

SingleLine ==
  /\ pc = "loop"
  /\ text # <<>>
  /\ iterations < MaxIter
  /\ NumberOfLines(text, max_width) <= 1
  /\ LET first_line_text == FirstLineText(text, max_width)
         line_text == first_line_text.chars
     IN /\ lines' = Append(lines, line_text)
        /\ character_differences' =
             Append(character_differences,
                    Len(line_text) - Len(first_line_text.chars))
        /\ line_break_differences' = Append(line_break_differences, 0)
        /\ pc' = IF first_line_text.ok THEN "break" ELSE "error"
  /\ iterations' = iterations + 1
  /\ UNCHANGED <<orig, max_width, offset, arg_text, pass, text,
                 next_word_layout, layout, length, resume_at, first_layout>>

Return ==
  /\ pc = "break" \/ (pc = "loop" /\ text = <<>>)
  /\ layout' = create_temp_layout(Join(lines), max_width)
  /\ pc' = "returned"
  /\ UNCHANGED <<orig, max_width, offset, arg_text, pass, text, lines,
                 character_differences, line_break_differences, iterations,
                 next_word_layout, length, resume_at, first_layout>>

\* --------------------------------------------------- split_first_line
SplitFirstLine ==
  /\ pc = "returned"
  /\ pass = 1
  /\ IF character_differences = <<>>
     THEN /\ pc' = "error"
          /\ UNCHANGED <<length, resume_at>>
     ELSE /\ pc' = "split"
          /\ length' = get_line(layout, 0).length - character_differences[1]
          /\ resume_at' =
               IF get_line_count(layout) >= 2
               THEN get_line(layout, 1).start_index
                    + (IF Len(line_break_differences) > 1
                       THEN line_break_differences[2] ELSE 0)
               ELSE None
  /\ UNCHANGED <<orig, max_width, offset, arg_text, pass, text, lines,
                 character_differences, line_break_differences, iterations,
                 next_word_layout, layout, first_layout>>

\* the caller lays out the next line: it skips resume_at bytes of the text
Resume ==
  /\ pc = "split"
  /\ resume_at # None
  /\ LET rest == BytesFrom(arg_text, resume_at)
     IN IF rest.ok
        THEN /\ arg_text' = rest.chars
             /\ offset' = offset + resume_at
             /\ pc' = "call"
        ELSE /\ pc' = "error"
             /\ UNCHANGED <<arg_text, offset>>
  /\ iterations' = 0
  /\ UNCHANGED <<orig, max_width, pass, text, lines, character_differences,
                 line_break_differences, next_word_layout, layout, length,
                 resume_at, first_layout>>

\* create_layout is run again on the newline-joined lines of the first run
Rerun ==
  /\ pc = "returned"
  /\ pass = 1
  /\ offset = 0
  /\ first_layout' = layout
  /\ arg_text' = layout.text
  /\ pass' = 2
  /\ pc' = "call"
  /\ iterations' = 0
  /\ UNCHANGED <<orig, max_width, offset, text, lines, character_differences,
                 line_break_differences, next_word_layout, layout, length,
                 resume_at>>

Next ==
  \/ FastPath
  \/ EnterLoop
  \/ ForcedBreak
  \/ WordOverflow
  \/ SingleLine
  \/ Return
  \/ SplitFirstLine
  \/ Resume
  \/ Rerun

Spec == Init /\ [][Next]_vars

\* -------------------------------------------------------- properties
\* a width that is a positive number (WIDTH_LIMIT included)
FinitePositive(w) == w # None /\ w > 0

\* a width that is positive and below the limit of set_width
Constraining(w) == w # None /\ w > 0 /\ w < WIDTH_LIMIT

Range(s) == {s[i] : i \in 1..Len(s)}

\* C1: when split_first_line returns a resume_at that is not None for a
\* finite positive max_width, resume_at >= length, and the first resume_at
\* bytes of the text are the kept first line followed only by whole space
\* and line-break characters.
C1_ResumeSlicesRemainder ==
  (pc = "split" /\ pass = 1 /\ FinitePositive(max_width) /\ resume_at # None)
  => LET b == Encode(arg_text)
         kept == Encode(get_line(layout, 0).chars)
         dropped == Decode(SubSeq(b, Len(kept) + 1, resume_at))
     IN /\ resume_at >= length
        /\ resume_at <= Len(b)
        /\ resume_at >= Len(kept)
        /\ SliceTo(b, Len(kept)) = kept
        /\ dropped.ok
        /\ Range(dropped.chars) \subseteq ({SP} \cup LineBreaks)

\* C2: split_first_line on the empty text completes without error at any
\* max_width and returns a single empty line, length 0 and resume_at None.
C2_EmptyTextCompletes ==
  (arg_text = <<>> /\ offset = 0 /\ pass = 1)
  => /\ pc # "error"
     /\ pc = "split" => /\ get_line_count(layout) = 1
                        /\ get_line(layout, 0).chars = <<>>
                        /\ length = 0
                        /\ resume_at = None

\* C3: for a finite positive max_width every iteration of the while loop
\* that stays in the loop replaces text by a strictly shorter suffix of
\* itself, and the number of iterations never exceeds the length of the
\* text create_layout was called with.
C3_LoopTerminates ==
  [][FinitePositive(max_width)
     => /\ iterations' <= Len(arg_text')
        /\ (pc = "loop" /\ pc' = "loop")
           => /\ Len(text') < Len(text)
              /\ text' = SliceFrom(text, Len(text) - Len(text'))]_vars

C3_Witness ==
  /\ pc = "returned"
  /\ pass = 1
  /\ Constraining(max_width)
  /\ iterations >= 3
  /\ next_word_layout # NoLayout
  /\ \E i \in 1..Len(lines) : lines[i] = <<LF>>

\* C4: for a non-empty text and a finite positive max_width, the chain of
\* split_first_line calls, each on the text sliced at the previous
\* resume_at, never fails, and every resume_at it returns is above 0.
C4_ChainProgresses ==
  (orig # <<>> /\ FinitePositive(max_width) /\ pass = 1)
  => /\ pc # "error"
     /\ (pc = "split" /\ resume_at # None) => resume_at > 0

\* C5: for two non-empty words separated by one line feed and a max_width
\* that is absent or wide enough for each of them, the layout create_layout
\* returns has exactly two lines, the two words in order.  Stated for words
\* of one-byte letters, as in "ab\ncd", where slicing by bytes and slicing
\* by characters agree.
C5_HardBreakTwoLines ==
  \A i \in 2..(Len(orig) - 1) :
    LET s1 == SubSeq(orig, 1, i - 1)
        s2 == SubSeq(orig, i + 1, Len(orig))
    IN (/\ pc = "returned" /\ pass = 1 /\ offset = 0
        /\ orig[i] = LF
        /\ Range(s1) = {A} /\ Range(s2) = {A}
        /\ \/ max_width = None
           \/ /\ FinitePositive(max_width)
              /\ Len(s1) <= max_width /\ Len(s2) <= max_width)
       => /\ get_line_count(layout) = 2
          /\ get_line(layout, 0).chars = s1
          /\ get_line(layout, 1).chars = s2

\* the text is two words separated by one space, and max_width fits the
\* first word but not the whole text
TwoWordsFirstFits(i) ==
  /\ i \in 2..(Len(orig) - 1)
  /\ orig[i] = SP
  /\ Range(SubSeq(orig, 1, i - 1)) \subseteq Letters
  /\ Range(SubSeq(orig, i + 1, Len(orig))) \subseteq Letters
  /\ Constraining(max_width)
  /\ i - 1 <= max_width
  /\ max_width < Len(orig)

\* C6: for two words separated by a single space and a max_width that fits
\* the first word but not both, split_first_line returns a first line that
\* is the first word without its trailing space, and resume_at is the byte
\* offset of the second word: one past the space.
C6_WordBoundary ==
  \A i \in 1..Len(orig) :
    (pc = "split" /\ pass = 1 /\ offset = 0 /\ TwoWordsFirstFits(i))
    => /\ get_line(layout, 0).chars = SubSeq(orig, 1, i - 1)
       /\ resume_at = Len(Encode(SubSeq(orig, 1, i))) 

C6_Witness ==
  /\ pc = "split" /\ pass = 1 /\ offset = 0
  /\ TwoWordsFirstFits(2)
  /\ orig[1] = E2
  /\ resume_at = 3

\* the line, without its trailing spaces, is one word wider than w
SingleWideWord(line, w) ==
  LET s == RStrip(line.chars)
  IN s # <<>> /\ SP \notin Range(s) /\ Len(s) > w

\* C7: for a finite positive max_width every line of the layout returned
\* by create_layout is at most max_width wide, unless it is a single
\* unbreakable word wider than max_width.
C7_WidthBound ==
  (pc = "returned" /\ pass = 1 /\ FinitePositive(max_width))
  => \A i \in 1..get_line_count(layout) :
       \/ LineWidth(layout.lines[i]) <= max_width
       \/ SingleWideWord(layout.lines[i], max_width)

\* the character offsets at which the lines of a layout start and end
Boundaries(l) ==
  [i \in 1..Len(l.lines) |->
     LET start == Len(BytesTo(l.text, l.lines[i].start_index).chars)
     IN <<start, start + Len(l.lines[i].chars)>>]

\* C8: for a finite positive max_width, create_layout run on the
\* newline-joined lines of a first run yields the line boundaries of the
\* layout the first run returned.  Stated for texts of one-byte characters,
\* where slicing by bytes and slicing by characters agree.
C8_SecondPassIdempotent ==
  (/\ pc = "returned" /\ pass = 2 /\ FinitePositive(max_width)
   /\ Range(orig) \subseteq {A, SP, LF})
  => Boundaries(layout) = Boundaries(first_layout)

\* the byte count the engine reports for the branch an iteration takes
ConsumedBytes(t, w) ==
  IF FirstLineLength(t, w) = 0
  THEN get_line(create_temp_layout(t, w), 1).start_index
  ELSE IF WordOverflows(t, w) THEN FirstLineLength(t, w)
  ELSE FirstLineLength(t, w) + WordLength(t, w)

\* C9: in every branch of the loop the remaining text after the iteration
\* is the previous remaining text with exactly the consumed number of
\* leading UTF-8 bytes removed.
C9_ConsumesReportedBytes ==
  [][(pc = "loop" /\ pc' = "loop" /\ iterations' = iterations + 1)
     => Encode(text') = SliceFrom(Encode(text), ConsumedBytes(text, max_width))]_vars

\* C10: the layout built over the text after the first line, to learn the
\* next word, has no width constraint.
C10_NextWordUnconstrained ==
  next_word_layout # NoLayout => next_word_layout.width = Unconstrained

\* C10, amended: that layout is constrained to width 0, so that its first
\* line holds one word with its trailing spaces and nothing more.
C10_NextWordZeroWidth ==
  next_word_layout # NoLayout
  => /\ next_word_layout.width = 0
     /\ LET word == get_line(next_word_layout, 0).chars
        IN word # <<>> => BreakEnds(word) = {Len(word)}

C10_Witness ==
  /\ next_word_layout # NoLayout
  /\ Range(next_word_layout.text) \cap LineBreaks = {}
  /\ get_line_count(next_word_layout) >= 2

====
